---- MODULE Spec2Model ----
(***************************************************************************)
(* DrawioBinaryDocument and DrawioEditorProviderBinary                     *)
(* (src/src/DrawioEditorProviderBinary.ts) as a state machine.             *)
(*                                                                         *)
(* JavaScript strings are sequences of code points, buffers are sequences  *)
(* of bytes; both are sequences of integers here.  `undefined` for a       *)
(* `string | undefined` field is the sequence Undefined, which is no       *)
(* string.  An asynchronous method is a task that moves from one await to  *)
(* the next; the event loop interleaves the tasks in flight.               *)
(***************************************************************************)
EXTENDS Integers, Sequences, FiniteSets

\* ------------------------------------------------------------------ bounds

\* Longest XML payload of a change event, in code points.
MaxLen == 1
\* Most asynchronous operations in flight at once.
MaxTasks == 2

\* ----------------------------------------------------------- strings, bytes

Undefined == <<-1>>

\* JavaScript truthiness of a `string | undefined`: undefined and "" are falsy.
Truthy(v) == v # Undefined /\ v # <<>>

RECURSIVE Repeat(_, _)
Repeat(c, n) == IF n = 0 THEN <<>> ELSE <<c>> \o Repeat(c, n - 1)

\* The payloads a change event can carry: "" and the strings of U+00E9 (two
\* bytes in UTF-8) up to MaxLen.
Payloads == { Repeat(233, n) : n \in 0..MaxLen }

\* Buffer.from(xml, "utf-8"): code points to bytes.
RECURSIVE Utf8Encode(_)
Utf8Encode(s) ==
    IF s = <<>> THEN <<>>
    ELSE LET c == Head(s) IN
         (IF c < 128 THEN <<c>>
          ELSE IF c < 2048 THEN <<192 + (c \div 64), 128 + (c % 64)>>
          ELSE <<224 + (c \div 4096), 128 + ((c \div 64) % 64), 128 + (c % 64)>>)
         \o Utf8Encode(Tail(s))

IsCont(b) == b >= 128 /\ b < 192

\* Buffer.toString("utf-8"): bytes to code points, an ill-formed byte becoming
\* U+FFFD.
RECURSIVE Utf8Decode(_)
Utf8Decode(b) ==
    IF b = <<>> THEN <<>>
    ELSE LET b1 == Head(b) IN
         IF b1 < 128 THEN <<b1>> \o Utf8Decode(Tail(b))
         ELSE IF b1 >= 194 /\ b1 < 224 /\ Len(b) >= 2 /\ IsCont(b[2])
              THEN <<(b1 - 192) * 64 + (b[2] - 128)>>
                   \o Utf8Decode(SubSeq(b, 3, Len(b)))
         ELSE IF b1 >= 224 /\ b1 < 240 /\ Len(b) >= 3 /\ IsCont(b[2]) /\ IsCont(b[3])
                 /\ (b1 > 224 \/ b[2] >= 160)
              THEN <<(b1 - 224) * 4096 + (b[2] - 128) * 64 + (b[3] - 128)>>
                   \o Utf8Decode(SubSeq(b, 4, Len(b)))
         ELSE <<65533>> \o Utf8Decode(Tail(b))

\* ------------------------------------------------------------ paths, Uris

\* ".png", ".svg"
PngExt == <<46, 112, 110, 103>>
SvgExt == <<46, 115, 118, 103>>

\* String.prototype.endsWith
EndsWith(s, suffix) ==
    /\ Len(s) >= Len(suffix)
    /\ SubSeq(s, Len(s) - Len(suffix) + 1, Len(s)) = suffix

\* The last index of character c in s, 0 when there is none.
LastIndexOf(s, c) ==
    LET at == { i \in 1..Len(s) : s[i] = c } IN
    IF at = {} THEN 0 ELSE CHOOSE i \in at : \A j \in at : j <= i

\* path.extname: from the last "." of the last path segment to the end; ""
\* when there is none or when the segment starts with it.
extname(path) ==
    LET slash == LastIndexOf(path, 47)
        dot == LastIndexOf(path, 46)
    IN IF dot = 0 \/ dot <= slash + 1 THEN <<>>
       ELSE SubSeq(path, dot, Len(path))

\* A Uri: a scheme and a path.
MkUri(scheme, path) == [scheme |-> scheme, path |-> path]

\* "file"
FileScheme == <<102>>

\* Uri.toString(): scheme ":" path
UriToString(u) == u.scheme \o <<58>> \o u.path

\* The first index of character c in s, 0 when there is none.
FirstIndexOf(s, c) ==
    LET at == { i \in 1..Len(s) : s[i] = c } IN
    IF at = {} THEN 0 ELSE CHOOSE i \in at : \A j \in at : i <= j

\* Uri.parse(string): the scheme before the first ":", the path after it.
UriParse(s) ==
    LET k == FirstIndexOf(s, 58) IN
    IF k = 0 THEN MkUri(FileScheme, s)
    ELSE MkUri(SubSeq(s, 1, k - 1), SubSeq(s, k + 1, Len(s)))

\* uri.fsPath
FsPath(u) == u.path

\* ------------------------------------------------- the diagram instance

\* The instances a webview initializer can hand out.
Instances == {1, 2}

\* What a fresh instance holds: an empty diagram.
BlankXml == <<>>

\* CustomDrawioInstance.export(extension): the bytes of the content in the
\* format of the extension, a format byte (0x89 for PNG, "<" for SVG) before
\* the UTF-8 text; Undefined when the exporter does not know the format.
ExportBytes(xml, ext) ==
    IF ext = PngExt THEN <<137>> \o Utf8Encode(xml)
    ELSE IF ext = SvgExt THEN <<60>> \o Utf8Encode(xml)
    ELSE Undefined

\* CustomDrawioInstance.loadPngWithEmbeddedXml(buffer): the XML embedded in
\* a PNG; Undefined when the buffer is no such PNG.
EmbeddedXml(buffer) ==
    IF buffer # <<>> /\ Head(buffer) = 137 THEN Utf8Decode(Tail(buffer))
    ELSE Undefined

\* ------------------------------------------------------------ locations

\* "d.png", "d.svg": where a document can live.
PngUri == MkUri(FileScheme, <<100>> \o PngExt)
SvgUri == MkUri(FileScheme, <<100>> \o SvgExt)
DocUris == {PngUri, SvgUri}
\* "b": the host's backup location.
BackupUri == MkUri(FileScheme, <<98>>)
\* "e.svg": another location, a target of saveAs.
OtherUri == MkUri(FileScheme, <<101>> \o SvgExt)
NoUri == MkUri(<<>>, <<>>)

\* A location that holds no file.
NoFile == <<-1>>

\* ---------------------------------------------------------------- state

VARIABLES
    uri,        \* DrawioBinaryDocument.uri
    backupId,   \* DrawioBinaryDocument.backupId: a string or Undefined
    drawio,     \* DrawioBinaryDocument._drawio: an instance, 0 for undefined
    subs,       \* per instance, the events the Document has subscribed to
    isDirty,    \* DrawioBinaryDocument._isDirty
    currentXml, \* DrawioBinaryDocument.currentXml: a string or Undefined
    content,    \* the XML the bound instance holds
    fs,         \* workspace.fs: per location, the bytes of its file or NoFile
    tasks,      \* the asynchronous operations in flight, each at an await
    records,    \* the CustomDocumentBackup records handed to the host
    last        \* what the step into this state did, and how it ended

vars == <<uri, backupId, drawio, subs, isDirty, currentXml, content, fs,
          tasks, records, last>>

Locations == {PngUri, SvgUri, BackupUri, OtherUri}
Events == {"onInit", "onChange", "onSave"}

\* An asynchronous operation suspended at an await: its method (kind), the
\* await it is at (pc), its caller (by), the location it reads or writes
\* (target), the value it carries (buf), the content that value was made
\* from (src), and what has happened to the dirty flag since it started
\* (mark: "change", a change event set it; "backup", only the onInit
\* handler's restore set it; "cleared", a change event set it and a later
\* save or loadFromDisk cleared it again).
Task(kind, pc, by, target, buf, src) ==
    [kind |-> kind, pc |-> pc, by |-> by, target |-> target, buf |-> buf,
     src |-> src, mark |-> "none"]

NoTask == Task("none", "", "", NoUri, <<>>, <<>>)

\* What settles in a step, for whoever called it to see: the operation that
\* returned or threw (kind), its caller (by), how it ended (res: "ok" or
\* "failed"), the error (err), and the signals the step sent to the host
\* (host), with what the Document held at each of those signals (seen).
\* NoResult when nothing settles.
Last(kind, by, res, err, host) ==
    [kind |-> kind, by |-> by, res |-> res, err |-> err, host |-> host,
     seen |-> <<>>]

NoResult == Last("", "", "none", "", <<>>)

\* Who is handed the promise of an operation, and so sees it settle: the
\* host for the provider's operations, which return the Document's promise;
\* nobody for the loadXmlLike and the loadFromDisk that the onInit handler
\* calls without awaiting or returning them; the instance's event emitter
\* for the handler's own promise.
Receiver(kind, by) ==
    IF by = "host" THEN "host"
    ELSE IF kind \in {"load", "push"} THEN "nobody"
    ELSE "emitter"

ErrAlreadySet == "Instance already set!"
ErrInvalidExt == "Invalid file extension"
\* A call on `this._drawio!` while it is undefined.
ErrNoInstance == "TypeError"
ErrFs == "FileSystemError"
ErrInstance == "InstanceError"

\* The bounds on operations in flight: MaxTasks in all, and one of a kind
\* from one caller (a second init event, save or revert waits for the first).
CanSpawn(t) ==
    /\ Cardinality(tasks) < MaxTasks
    /\ \A u \in tasks : u.kind # t.kind \/ u.by # t.by

\* Every operation in flight that cleared the dirty flag learns that m set it.
Marked(ts, m) ==
    { IF t.kind \in {"save", "load"} /\ t.mark # "change"
      THEN [t EXCEPT !.mark = m] ELSE t : t \in ts }

\* Every operation in flight that saw a change event set the dirty flag
\* learns that a later save or loadFromDisk has cleared it.
Cleared(ts) ==
    { IF t.kind \in {"save", "load"} /\ t.mark = "change"
      THEN [t EXCEPT !.mark = "cleared"] ELSE t : t \in ts }

\* The diagram in the document's file when it is opened, and the diagram in
\* the host's backup of it.
DiskXml == Repeat(233, 2)
BackupXml == Repeat(233, 1)

\* new DrawioBinaryDocument(uri, openContext.backupId), as openCustomDocument
\* makes it; the file system holds the document's file and, when the host
\* resumes from a backup, the backup file.
Init ==
    /\ uri \in DocUris
    /\ backupId \in {Undefined, UriToString(BackupUri)}
    /\ drawio = 0
    /\ subs = [i \in Instances |-> {}]
    /\ isDirty = FALSE
    /\ currentXml = Undefined
    /\ content = BlankXml
    /\ fs = [l \in Locations |->
               IF l = uri THEN ExportBytes(DiskXml, extname(l.path))
               ELSE IF l = BackupUri /\ backupId # Undefined
                    THEN Utf8Encode(BackupXml)
               ELSE NoFile]
    /\ tasks = {}
    /\ records = {}
    /\ last = NoResult

\* ------------------------------------------------- DrawioBinaryDocument

\* The guard left out: a second instance replaces the first.
AlreadySetNever == FALSE

\* setDrawioInstance: the guard `if (this._drawio)`.
AlreadySet == drawio # 0

\* setDrawioInstance(instance): throws when an instance is bound; otherwise
\* binds it and subscribes to its three events.
SetDrawioInstance(by, i) ==
    IF AlreadySet
    THEN /\ last' = Last("setDrawioInstance", by, "failed", ErrAlreadySet, <<>>)
         /\ UNCHANGED <<uri, backupId, drawio, subs, isDirty, currentXml,
                        content, fs, tasks, records>>
    ELSE /\ drawio' = i
         /\ subs' = [subs EXCEPT ![i] = Events]
         /\ last' = Last("setDrawioInstance", by, "ok", "", <<>>)
         /\ UNCHANGED <<uri, backupId, isDirty, currentXml, content, fs,
                        tasks, records>>

\* The flag left as it is when a save or a load starts.
ClearedFlagKept == isDirty

\* loadFromDisk and save: `this._isDirty = false`.
ClearedFlag == FALSE

\* The extension check also letting .svg through.
IsPngOrSvgPath(u) == EndsWith(FsPath(u), PngExt) \/ EndsWith(FsPath(u), SvgExt)

\* loadFromDisk: `this.uri.fsPath.endsWith(".png")`.
IsPngPath(u) == EndsWith(FsPath(u), PngExt)

\* loadFromDisk(), up to its first await: clears the dirty flag, then either
\* starts reading the file or throws on the extension.
LoadFromDisk(by) ==
    /\ isDirty' = ClearedFlag
    /\ IF IsPngPath(uri)
       THEN LET t == Task("load", "read", by, uri, <<>>, <<>>) IN
            /\ CanSpawn(t)
            /\ tasks' = Cleared(tasks) \cup {t}
            /\ last' = NoResult
       ELSE /\ tasks' = Cleared(tasks)
            /\ last' = Last("load", by, "failed", ErrInvalidExt, <<>>)
    /\ UNCHANGED <<uri, backupId, drawio, subs, currentXml, content, fs,
                   records>>

\* The onInit handler's choice: `if (this.currentXml) ... else if
\* (this.backupId) ... else ...`.
InitBranch(xml, bid) ==
    IF Truthy(xml) THEN "xml" ELSE IF Truthy(bid) THEN "backup" ELSE "disk"

\* instance.onInit: the subscribed handler, up to its first await.
\*   xml:    loadXmlLike(currentXml), not awaited: the handler is done and
\*           the load runs on;
\*   backup: starts reading Uri.parse(backupId);
\*   disk:   loadFromDisk(), not awaited.
OnInit(i) ==
    IF "onInit" \notin subs[i]
    THEN /\ last' = NoResult
         /\ UNCHANGED <<uri, backupId, drawio, subs, isDirty, currentXml,
                        content, fs, tasks, records>>
    ELSE CASE InitBranch(currentXml, backupId) = "xml" ->
              LET t == Task("push", "load", "init", NoUri, currentXml, <<>>) IN
              /\ CanSpawn(t)
              /\ tasks' = tasks \cup {t}
              /\ last' = NoResult
              /\ UNCHANGED <<uri, backupId, drawio, subs, isDirty, currentXml,
                             content, fs, records>>
           [] InitBranch(currentXml, backupId) = "backup" ->
              LET t == Task("init", "read", "init", UriParse(backupId),
                            <<>>, <<>>) IN
              /\ CanSpawn(t)
              /\ tasks' = tasks \cup {t}
              /\ last' = NoResult
              /\ UNCHANGED <<uri, backupId, drawio, subs, isDirty, currentXml,
                             content, fs, records>>
           [] OTHER -> LoadFromDisk("init")

\* The onChange handler: `this.currentXml = change.newXml`.
ChangeXml(old, newXml) == newXml

\* The onChange handler firing before it updates the Document.
ChangeHandlerFireFirst == <<"fire", "cache", "dirty">>

\* The onChange handler's statements, in order: `this.currentXml =
\* change.newXml; this._isDirty = true; this.onChangeEmitter.fire(change)`.
ChangeHandler == <<"cache", "dirty", "fire">>

\* The handler's statements run one after the other on the Document's
\* fields d; a fire runs the provider's listener, which notifies the host,
\* and the host sees the fields as they are at that statement.
RECURSIVE RunChange(_, _, _)
RunChange(stmts, newXml, d) ==
    IF stmts = <<>> THEN d
    ELSE LET e == CASE Head(stmts) = "cache" ->
                         [d EXCEPT !.xml = ChangeXml(d.xml, newXml)]
                    [] Head(stmts) = "dirty" ->
                         [d EXCEPT !.isDirty = TRUE]
                    [] OTHER ->
                         [d EXCEPT !.seen = Append(d.seen,
                              [isDirty |-> d.isDirty, xml |-> d.xml])]
         IN RunChange(Tail(stmts), newXml, e)

\* instance.onChange(change): the instance now holds change.newXml; the
\* subscribed handler caches it, sets the dirty flag and fires onChange,
\* which the provider forwards to the host.
OnChange(i, newXml) ==
    /\ content' = IF i = drawio THEN newXml ELSE content
    /\ IF "onChange" \notin subs[i]
       THEN /\ last' = NoResult
            /\ UNCHANGED <<isDirty, currentXml, tasks>>
       ELSE LET d == RunChange(ChangeHandler, newXml,
                       [xml |-> currentXml, isDirty |-> isDirty,
                        seen |-> <<>>]) IN
            /\ currentXml' = d.xml
            /\ isDirty' = d.isDirty
            /\ tasks' = Marked(tasks, "change")
            /\ last' = [Last("onChange", "instance", "ok", "",
                             [k \in 1..Len(d.seen) |->
                                 "onDidChangeCustomDocument"])
                        EXCEPT !.seen = d.seen]
    /\ UNCHANGED <<uri, backupId, drawio, subs, fs, records>>

\* The onSave handler also marking the document saved.
OnSaveClearing(i) ==
    /\ last' = IF "onSave" \notin subs[i]
               THEN NoResult
               ELSE Last("onSave", "instance", "ok", "",
                         <<"workbench.action.files.save">>)
    /\ isDirty' = IF "onSave" \notin subs[i] THEN isDirty ELSE FALSE
    /\ UNCHANGED <<uri, backupId, drawio, subs, currentXml, content, fs,
                   tasks, records>>

\* instance.onSave: the subscribed handler fires onInstanceSave, on which
\* the provider runs the host's save command.
OnSave(i) ==
    /\ last' = IF "onSave" \notin subs[i]
               THEN NoResult
               ELSE Last("onSave", "instance", "ok", "",
                         <<"workbench.action.files.save">>)
    /\ UNCHANGED <<uri, backupId, drawio, subs, isDirty, currentXml, content,
                   fs, tasks, records>>

\* saveAs: `extname(target.path)`.
ExportFormat(target) == extname(target.path)

\* saveAs(target), up to its first await: asks the instance for the export.
\* Called by save() (kind "save"), the flag has just been cleared.
SaveAs(kind, target) ==
    /\ LET running == IF kind = "save" THEN Cleared(tasks) ELSE tasks IN
       IF drawio = 0
       THEN /\ tasks' = running
            /\ last' = Last(kind, "host", "failed", ErrNoInstance, <<>>)
       ELSE LET t == Task(kind, "export", "host", target, <<>>, <<>>) IN
            /\ CanSpawn(t)
            /\ tasks' = running \cup {t}
            /\ last' = NoResult
    /\ UNCHANGED <<uri, backupId, drawio, subs, currentXml, content, fs,
                   records>>

\* save() writing to another location than the document's.
SaveTargetOther == OtherUri

\* save: `return this.saveAs(this.uri)`.
SaveTarget == uri

\* save(): clears the dirty flag and saves to the document's location.
Save ==
    /\ isDirty' = ClearedFlag
    /\ SaveAs("save", SaveTarget)

\* backup(destination), up to its first await: asks the instance for its XML.
Backup(destination) ==
    /\ IF drawio = 0
       THEN /\ tasks' = tasks
            /\ last' = Last("backup", "host", "failed", ErrNoInstance, <<>>)
       ELSE LET t == Task("backup", "getXml", "host", destination, <<>>, <<>>) IN
            /\ CanSpawn(t)
            /\ tasks' = tasks \cup {t}
            /\ last' = NoResult
    /\ UNCHANGED <<uri, backupId, drawio, subs, isDirty, currentXml, content,
                   fs, records>>

\* dispose(): nothing.
Dispose == UNCHANGED vars

\* ------------------------------------------- the operations in flight

\* A task that ends: it leaves the operations in flight.
Ended(t) == tasks \ {t}
\* A task that moves on to its next await.
Moved(t, u) == (tasks \ {t}) \cup {u}

\* workspace.fs.readFile resolves or rejects.  loadFromDisk goes on to
\* `this.drawio.loadPngWithEmbeddedXml(buffer)`, the onInit handler decodes
\* the bytes as UTF-8 and goes on to `this.drawio.loadXmlLike(xml)`.
ReadDone(t, ok) ==
    /\ t.pc = "read"
    /\ IF ~ok \/ fs[t.target] = NoFile
       THEN /\ tasks' = Ended(t)
            /\ last' = Last(t.kind, t.by, "failed", ErrFs, <<>>)
       ELSE IF t.kind = "load" /\ drawio = 0
       THEN /\ tasks' = Ended(t)
            /\ last' = Last(t.kind, t.by, "failed", ErrNoInstance, <<>>)
       ELSE LET u == [t EXCEPT !.pc = "load",
                               !.buf = IF t.kind = "init"
                                       THEN Utf8Decode(fs[t.target])
                                       ELSE fs[t.target]] IN
            /\ tasks' = Moved(t, u)
            /\ last' = NoResult
    /\ UNCHANGED <<uri, backupId, drawio, subs, isDirty, currentXml, content,
                   fs, records>>

\* The handler not marking the restored backup dirty.
DirtyAfterBackupKept == isDirty

\* The onInit handler after its load: `this._isDirty = true`.
DirtyAfterBackup == TRUE

\* loadPngWithEmbeddedXml or loadXmlLike resolves or rejects.  The instance
\* then holds the loaded XML; loadFromDisk is done, the onInit handler sets
\* the dirty flag and is done.
LoadDone(t, ok) ==
    /\ t.pc = "load"
    /\ LET xml == IF t.kind = "load" THEN EmbeddedXml(t.buf) ELSE t.buf IN
       IF ~ok \/ xml = Undefined
       THEN /\ tasks' = Ended(t)
            /\ last' = Last(t.kind, t.by, "failed", ErrInstance, <<>>)
            /\ UNCHANGED <<content, isDirty>>
       ELSE /\ content' = xml
            /\ IF t.kind = "init"
               THEN /\ isDirty' = DirtyAfterBackup
                    /\ tasks' = Marked(Ended(t), "backup")
               ELSE /\ isDirty' = isDirty
                    /\ tasks' = Ended(t)
            /\ last' = Last(t.kind, t.by, "ok", "", <<>>)
    /\ UNCHANGED <<uri, backupId, drawio, subs, currentXml, fs, records>>

\* this.drawio.export(extname(target.path)) resolves or rejects; saveAs goes
\* on to workspace.fs.writeFile(target, buffer).
ExportDone(t, ok) ==
    /\ t.pc = "export"
    /\ LET bytes == ExportBytes(content, ExportFormat(t.target)) IN
       IF ~ok \/ bytes = Undefined
       THEN /\ tasks' = Ended(t)
            /\ last' = Last(t.kind, t.by, "failed", ErrInstance, <<>>)
       ELSE LET u == [t EXCEPT !.pc = "write", !.buf = bytes,
                               !.src = content] IN
            /\ tasks' = Moved(t, u)
            /\ last' = NoResult
    /\ UNCHANGED <<uri, backupId, drawio, subs, isDirty, currentXml, content,
                   fs, records>>

\* backup() writing a PNG export in place of the raw XML.
BackupBytesExport(xml) == ExportBytes(xml, PngExt)

\* backup: `Buffer.from(xml, "utf-8")`.
BackupBytes(xml) == Utf8Encode(xml)

\* this.drawio.getXml() resolves or rejects; backup goes on to
\* workspace.fs.writeFile(destination, Buffer.from(xml, "utf-8")).
GetXmlDone(t, ok) ==
    /\ t.pc = "getXml"
    /\ IF ~ok
       THEN /\ tasks' = Ended(t)
            /\ last' = Last(t.kind, t.by, "failed", ErrInstance, <<>>)
       ELSE LET u == [t EXCEPT !.pc = "write",
                               !.buf = BackupBytes(content),
                               !.src = content] IN
            /\ tasks' = Moved(t, u)
            /\ last' = NoResult
    /\ UNCHANGED <<uri, backupId, drawio, subs, isDirty, currentXml, content,
                   fs, records>>

\* The CustomDocumentBackup that backup(destination) returns: its id, and
\* the location its delete() removes.
BackupRecord(destination) ==
    [id |-> UriToString(destination), dest |-> destination]

\* save() marking the document saved when its write has settled.
DirtyAfterWriteCleared(t) == IF t.kind = "save" THEN FALSE ELSE isDirty

\* saveAs and backup after `await workspace.fs.writeFile(...)`: nothing is
\* assigned, the flag is as the write found it.
DirtyAfterWrite(t) == isDirty

\* workspace.fs.writeFile resolves or rejects; saveAs is done, backup
\* returns its record.
WriteDone(t, ok) ==
    /\ t.pc = "write"
    /\ tasks' = Ended(t)
    /\ isDirty' = DirtyAfterWrite(t)
    /\ IF ~ok
       THEN /\ last' = Last(t.kind, t.by, "failed", ErrFs, <<>>)
            /\ UNCHANGED <<fs, records>>
       ELSE /\ fs' = [fs EXCEPT ![t.target] = t.buf]
            /\ records' = IF t.kind = "backup"
                          THEN records \cup {BackupRecord(t.target)}
                          ELSE records
            /\ last' = Last(t.kind, t.by, "ok", "", <<>>)
    /\ UNCHANGED <<uri, backupId, drawio, subs, currentXml, content>>

\* record.delete(), up to its await: workspace.fs.delete(destination).
DeleteBackup(r) ==
    /\ LET t == Task("delete", "delete", "host", r.dest, <<>>, <<>>) IN
       /\ CanSpawn(t)
       /\ tasks' = tasks \cup {t}
       /\ last' = NoResult
    /\ UNCHANGED <<uri, backupId, drawio, subs, isDirty, currentXml, content,
                   fs, records>>

\* workspace.fs.delete resolves, or rejects (the file is missing, the file
\* system fails) and the rejection is caught: delete() completes either way
\* (res "ok"; err is the error it swallowed).
DeleteDone(t, ok) ==
    /\ t.pc = "delete"
    /\ tasks' = Ended(t)
    /\ fs' = IF ok /\ fs[t.target] # NoFile
             THEN [fs EXCEPT ![t.target] = NoFile] ELSE fs
    /\ last' = Last(t.kind, t.by, "ok",
                    IF ok /\ fs[t.target] # NoFile THEN "" ELSE ErrFs, <<>>)
    /\ UNCHANGED <<uri, backupId, drawio, subs, isDirty, currentXml, content,
                   records>>

\* ------------------------------------------- DrawioEditorProviderBinary

\* resolveCustomEditor: a new instance from the webview initializer, then
\* document.setDrawioInstance(drawioInstance).
ResolveCustomEditor(i) ==
    /\ i # drawio
    /\ drawio = 0 => i = 1
    /\ SetDrawioInstance("host", i)

\* saveCustomDocument: document.save()
SaveCustomDocument == Save

\* saveCustomDocumentAs going through save()'s clearing of the flag.
SaveCustomDocumentAsClearing(destination) ==
    /\ SaveAs("saveAs", destination)
    /\ isDirty' = ClearedFlag

\* saveCustomDocumentAs: document.saveAs(destination)
SaveCustomDocumentAs(destination) ==
    /\ SaveAs("saveAs", destination)
    /\ UNCHANGED isDirty

\* revertCustomDocument: document.loadFromDisk()
RevertCustomDocument == LoadFromDisk("host")

\* backupCustomDocument: document.backup(context.destination)
BackupCustomDocument(destination) == Backup(destination)

\* ------------------------------------------------------ specifications

\* Another operation can start: the bound on operations in flight is in
\* CanSpawn.  In SpecAll the host awaits each operation before the next.
Idle == tasks = {}

\* Editing: the instance's events, save and revert, interleaved.
Next ==
    \/ \E i \in Instances : ResolveCustomEditor(i)
    \/ \E i \in Instances : OnInit(i)
    \/ \E i \in Instances, x \in Payloads : OnChange(i, x)
    \/ \E i \in Instances : OnSave(i)
    \/ SaveCustomDocument
    \/ RevertCustomDocument
    \/ Dispose
    \/ \E t \in tasks, ok \in BOOLEAN : ReadDone(t, ok)
    \/ \E t \in tasks, ok \in BOOLEAN : LoadDone(t, ok)
    \/ \E t \in tasks, ok \in BOOLEAN : ExportDone(t, ok)
    \/ \E t \in tasks, ok \in BOOLEAN : WriteDone(t, ok)

Spec == Init /\ [][Next]_vars

\* Backups: edits, backup and the deletion of backups, and the onInit
\* handler that restores one, interleaved.
NextBackup ==
    \/ \E i \in Instances : ResolveCustomEditor(i)
    \/ \E i \in Instances : OnInit(i)
    \/ \E i \in Instances, x \in Payloads : OnChange(i, x)
    \/ BackupCustomDocument(BackupUri)
    \/ \E r \in records : DeleteBackup(r)
    \/ \E t \in tasks, ok \in BOOLEAN : ReadDone(t, ok)
    \/ \E t \in tasks, ok \in BOOLEAN : LoadDone(t, ok)
    \/ \E t \in tasks, ok \in BOOLEAN : GetXmlDone(t, ok)
    \/ \E t \in tasks, ok \in BOOLEAN : WriteDone(t, ok)
    \/ \E t \in tasks, ok \in BOOLEAN : DeleteDone(t, ok)

SpecBackup == Init /\ [][NextBackup]_vars

\* Every operation of the Document and the Provider, the host awaiting
\* each asynchronous operation before it starts the next.
NextAll ==
    \/ \E i \in Instances : ResolveCustomEditor(i)
    \/ Idle /\ \E i \in Instances : OnInit(i)
    \/ \E i \in Instances, x \in Payloads : OnChange(i, x)
    \/ \E i \in Instances : OnSave(i)
    \/ Idle /\ SaveCustomDocument
    \/ Idle /\ \E d \in {uri, OtherUri} : SaveCustomDocumentAs(d)
    \/ Idle /\ RevertCustomDocument
    \/ Idle /\ BackupCustomDocument(BackupUri)
    \/ Idle /\ \E r \in records : DeleteBackup(r)
    \/ Dispose
    \/ \E t \in tasks, ok \in BOOLEAN : ReadDone(t, ok)
    \/ \E t \in tasks, ok \in BOOLEAN : LoadDone(t, ok)
    \/ \E t \in tasks, ok \in BOOLEAN : ExportDone(t, ok)
    \/ \E t \in tasks, ok \in BOOLEAN : GetXmlDone(t, ok)
    \/ \E t \in tasks, ok \in BOOLEAN : WriteDone(t, ok)
    \/ \E t \in tasks, ok \in BOOLEAN : DeleteDone(t, ok)

SpecAll == Init /\ [][NextAll]_vars


\* ---------------------------------------------------------------- claims

\* The operations that a step starts: those in flight after it that were
\* not in flight before it, whatever their mark.
Started ==
    { t \in tasks' : \A u \in tasks : [u EXCEPT !.mark = t.mark] # t }

\* The extension of the document's own location.
OwnExt == IF uri = PngUri THEN PngExt ELSE SvgExt

\* A step is instance i's init event reaching the Document's handler.
InitHandled(i) == OnInit(i) /\ "onInit" \in subs[i]

\* A step in which the handler invokes loadFromDisk: the flag is cleared
\* and either the read of the file starts or the call throws.
InvokesLoadFromDisk ==
    /\ ~isDirty'
    /\ \/ \E t \in Started : t.kind = "load" /\ t.by = "init" /\ t.target = uri
       \/ /\ Started = {}
          /\ last' = Last("load", "init", "failed", ErrInvalidExt, <<>>)

\* C1: on every init event the handler picks one source by priority: the
\* cached XML when a change event has been received (whatever its payload),
\* pushed with loadXmlLike and nothing read; else the backup file when a
\* backup identifier was given; else loadFromDisk.
C1_InitPriority ==
    [][\A i \in Instances : InitHandled(i) =>
        IF currentXml # Undefined
        THEN /\ \E t \in Started : t.kind = "push" /\ t.buf = currentXml
             /\ \A t \in Started : t.pc # "read"
        ELSE IF backupId # Undefined
        THEN \E t \in Started :
                t.kind = "init" /\ t.pc = "read" /\ t.target = BackupUri
        ELSE InvokesLoadFromDisk]_vars

\* A step is a change event of instance i, with payload x, reaching the
\* Document's handler.
ChangeHandled(i, x) == OnChange(i, x) /\ "onChange" \in subs[i]

\* C2: right after a change event the Document is dirty and caches the
\* event's payload, and an init event that comes while that XML is cached
\* pushes it and reads neither the backup nor the file.
C2_ChangeCached ==
    [][/\ \A i \in Instances, x \in Payloads : ChangeHandled(i, x) =>
            isDirty' /\ currentXml' = x
       /\ \A i \in Instances : (InitHandled(i) /\ currentXml \in Payloads) =>
            /\ Started = {Task("push", "load", "init", NoUri, currentXml, <<>>)}
            /\ UNCHANGED isDirty]_vars

\* The first half of C2 alone, which holds: the change handler's own effect.
ChangeDirtiesAndCaches ==
    [][\A i \in Instances, x \in Payloads : ChangeHandled(i, x) =>
            isDirty' /\ currentXml' = x]_vars


\* A step of operation t: the await it is at settles.
StepOf(t) ==
    \E ok \in BOOLEAN :
        \/ ReadDone(t, ok) \/ LoadDone(t, ok) \/ ExportDone(t, ok)
        \/ GetXmlDone(t, ok) \/ WriteDone(t, ok) \/ DeleteDone(t, ok)

\* A step in which operation t ends: it returns or throws.
Ends(t) == StepOf(t) /\ t \notin tasks' /\ last'.res # "none"

\* C3: with a backup identifier and no change event before it, an init
\* event starts reading the backup location; the handler pushes the
\* UTF-8 decoded text of that file with loadXmlLike; and when the handler
\* has run to its end the instance holds that text and the Document is
\* dirty, whatever save, revert or change came in between.
C3_BackupRestored ==
    [][/\ \A i \in Instances :
            (InitHandled(i) /\ backupId # Undefined /\ currentXml = Undefined)
            => Started = {Task("init", "read", "init", BackupUri, <<>>, <<>>)}
       /\ \A t \in tasks : (t.kind = "init" /\ ReadDone(t, TRUE)
                               /\ fs[BackupUri] # NoFile)
            => \E u \in Started : u.kind = "init" /\ u.pc = "load"
                                   /\ u.buf = BackupXml
       /\ \A t \in tasks : (t.kind = "init" /\ Ends(t) /\ last'.res = "ok")
            => isDirty' /\ content' = BackupXml]_vars

\* C3's case: the handler has just ended after a save or a revert that
\* started during its read or load cleared the flag, and is still running.
C3_Witness ==
    /\ last = Last("init", "init", "ok", "", <<>>)
    /\ isDirty /\ content = BackupXml
    /\ \E t \in tasks : t.kind \in {"save", "load"} /\ t.mark = "backup"

\* C4: with no backup identifier and no change event before it, an init
\* event invokes loadFromDisk; and loadFromDisk on a location that does not
\* end in .png throws "Invalid file extension", starts no read and calls
\* no load on the instance.
C4_DiskLoadNeedsPng ==
    [][/\ \A i \in Instances :
            (InitHandled(i) /\ backupId = Undefined /\ currentXml = Undefined)
            => InvokesLoadFromDisk
       /\ \A by \in {"host", "init"} : (LoadFromDisk(by) /\ uri # PngUri)
            => /\ last' = Last("load", by, "failed", ErrInvalidExt, <<>>)
               /\ Started = {}
               /\ UNCHANGED <<content, fs>>
       /\ (uri # PngUri) => \A t \in tasks' : t.kind # "load"]_vars

\* C4's case: the init handler's loadFromDisk has thrown on a .svg document.
C4_Witness ==
    /\ uri = SvgUri /\ backupId = Undefined /\ currentXml = Undefined
    /\ last = Last("load", "init", "failed", ErrInvalidExt, <<>>)
    /\ tasks = {}


\* C5: save() on a Document with an instance clears the dirty flag; the
\* export it asks for is of the instance's content at that moment, in the
\* format of the document's own extension; when it completes it has made
\* one write, of those bytes, to the document's own location, and none of
\* its other steps writes anything.
C5_SaveWritesOwnLocation ==
    [][/\ (SaveCustomDocument /\ drawio # 0) => ~isDirty'
       /\ \A t \in tasks' : t.kind = "save" => t.target = uri
       /\ \A t \in tasks : (t.kind = "save" /\ StepOf(t)) =>
            /\ ExportDone(t, TRUE) =>
                 \E u \in Started : /\ u.kind = "save" /\ u.pc = "write"
                                     /\ u.buf = ExportBytes(content, OwnExt)
            /\ IF Ends(t) /\ last'.res = "ok"
               THEN t.pc = "write" /\ fs' = [fs EXCEPT ![uri] = t.buf]
               ELSE fs' = fs]_vars

\* C5's case: a save has just completed and the file holds the export of
\* an edited diagram.
C5_Witness ==
    /\ last = Last("save", "host", "ok", "", <<>>)
    /\ ~isDirty /\ tasks = {}
    /\ content # DiskXml /\ content = currentXml
    /\ fs[uri] = ExportBytes(content, OwnExt)

\* C6: backup(destination) writes the UTF-8 bytes of getXml's result (no
\* export) to destination and returns a record whose id is the destination
\* and whose delete() removes that file; delete() completes normally also
\* when the file is missing or the file system fails, leaving the files as
\* they are.
C6_BackupAndDelete ==
    [][/\ \A t \in tasks : (t.kind = "backup" /\ StepOf(t)) =>
            /\ GetXmlDone(t, TRUE) =>
                 \E u \in Started : /\ u.kind = "backup" /\ u.pc = "write"
                                     /\ u.target = BackupUri
                                     /\ u.buf = Utf8Encode(content)
            /\ (Ends(t) /\ last'.res = "ok") =>
                 /\ fs' = [fs EXCEPT ![BackupUri] = t.buf]
                 /\ records' = records \cup
                       {[id |-> UriToString(BackupUri), dest |-> BackupUri]}
       /\ \A r \in records : DeleteBackup(r) =>
            \E u \in Started : u.kind = "delete" /\ u.target = UriParse(r.id)
       /\ \A t \in tasks : (t.kind = "delete" /\ Ends(t)) =>
            /\ last'.res = "ok"
            /\ IF last'.err = ""
               THEN fs[t.target] # NoFile
                    /\ fs' = [fs EXCEPT ![BackupUri] = NoFile]
               ELSE fs' = fs]_vars

\* C6's case: a backup was written, its record's delete() removed it, and
\* a further delete() has just completed normally on the missing file.
C6_Witness ==
    /\ records = {[id |-> UriToString(BackupUri), dest |-> BackupUri]}
    /\ fs[BackupUri] = NoFile
    /\ last = Last("delete", "host", "ok", ErrFs, <<>>)

\* C7: setDrawioInstance on a Document that has an instance throws and
\* changes nothing: not the instance, the flag, the cached XML or the
\* subscriptions; the second instance gets no subscription, and its events
\* change nothing in the Document.
C7_SecondBindRejected ==
    [][/\ \A i \in Instances : (SetDrawioInstance("host", i) /\ drawio # 0) =>
            /\ last' = Last("setDrawioInstance", "host", "failed",
                            ErrAlreadySet, <<>>)
            /\ UNCHANGED <<drawio, subs, isDirty, currentXml, content, tasks, fs>>
       /\ \A i \in Instances : (i # drawio') => subs'[i] = {}
       /\ \A i \in Instances : (i # drawio /\ drawio # 0) =>
            ((OnInit(i) \/ OnSave(i) \/ \E x \in Payloads : OnChange(i, x))
             => /\ UNCHANGED <<drawio, subs, isDirty, currentXml, content,
                               tasks, fs>>
                /\ last' = NoResult)]_vars

\* C7's case: a second instance was refused after the first one's edit.
C7_Witness ==
    /\ drawio = 1 /\ subs[1] = Events /\ subs[2] = {}
    /\ isDirty /\ currentXml \in Payloads
    /\ last = Last("setDrawioInstance", "host", "failed", ErrAlreadySet, <<>>)

\* C8: once set, the instance reference never changes.
C8_InstanceWriteOnce == [][drawio # 0 => drawio' = drawio]_vars

\* C8's case: the instance is still the first one after a save-as and a
\* backup were written, an edit is cached and a second bind has been refused.
C8_Witness ==
    /\ drawio = 1
    /\ fs[OtherUri] # NoFile /\ records # {} /\ currentXml \in Payloads
    /\ last.err = ErrAlreadySet

\* The XML in the document's own file: what the last confirmed write put
\* there or, before any write, what a confirmed read finds.
PersistedXml == Utf8Decode(Tail(fs[uri]))

\* C9: when a save or a load has settled, nothing is in flight and the
\* dirty flag is false, the instance holds the XML of the document's file.
C9_CleanMeansPersisted ==
    (/\ drawio # 0 /\ tasks = {} /\ ~isDirty
     /\ last.kind \in {"save", "load"})
    => content = PersistedXml

\* The operations that clear the dirty flag when they start.
ClearsFlag(t) == t.kind \in {"save", "load"}

\* save() and loadFromDisk() clear the flag when called, and no later step
\* of theirs changes it.
ClearedAndNeverRestored ==
    /\ (SaveCustomDocument \/ LoadFromDisk("host") \/ LoadFromDisk("init"))
         => ~isDirty'
    /\ \A t \in tasks : (ClearsFlag(t) /\ StepOf(t)) => UNCHANGED isDirty

\* C10 as stated: a save or load that fails leaves the flag false unless a
\* change event arrived after it started.
C10_FailedLeavesClean ==
    [][/\ ClearedAndNeverRestored
       /\ \A t \in tasks :
            (ClearsFlag(t) /\ Ends(t) /\ last'.res = "failed"
             /\ t.mark # "change") => ~isDirty']_vars

\* C10 as amended: ... unless a change event arrived, or the onInit
\* handler finished restoring a backup, after it started.
C10_FailedLeavesCleanUnlessDirtied ==
    [][/\ ClearedAndNeverRestored
       /\ \A t \in tasks :
            (ClearsFlag(t) /\ Ends(t) /\ last'.res = "failed"
             /\ t.mark = "none") => ~isDirty']_vars

\* C10's case: a save of an edited diagram has failed at the write and the
\* Document reports clean.
C10_Witness ==
    /\ last = Last("save", "host", "failed", ErrFs, <<>>)
    /\ ~isDirty /\ tasks = {}
    /\ currentXml \in Payloads /\ content = currentXml
    /\ content # PersistedXml

\* C11: every loadFromDisk on a location that is not a .png ends in an
\* error that the host is handed, whether the provider's revert or the
\* onInit handler's disk branch called it.
C11_NonPngLoadSurfaced ==
    [][\A by \in {"host", "init"} : (LoadFromDisk(by) /\ ~IsPngPath(uri)) =>
            /\ last'.res = "failed"
            /\ Receiver(last'.kind, last'.by) = "host"]_vars

\* A step in which a saveAs is called: its export is asked for, or the call
\* throws at once.
SaveAsCalled ==
    \/ \E t \in Started : t.kind = "saveAs"
    \/ last' = Last("saveAs", "host", "failed", ErrNoInstance, <<>>)

\* C12: no step of saveAs(target), its call and the settling of its export
\* and of its write, for any target and whether it succeeds or fails,
\* changes the dirty flag or the cached XML.
C12_SaveAsKeepsFlagAndCache ==
    [][/\ SaveAsCalled => UNCHANGED <<isDirty, currentXml>>
       /\ \A t \in tasks : (t.kind = "saveAs" /\ StepOf(t))
            => UNCHANGED <<isDirty, currentXml>>]_vars

\* C12's case: a saveAs to the document's own location has just written an
\* edited diagram there, and the Document is still dirty.
C12_Witness ==
    /\ last = Last("saveAs", "host", "ok", "", <<>>)
    /\ isDirty /\ currentXml \in Payloads /\ content = currentXml
    /\ fs[uri] = ExportBytes(currentXml, OwnExt) /\ fs[OtherUri] = NoFile

\* A step is a save event of instance i reaching the Document's handler.
SaveEventHandled(i) == OnSave(i) /\ "onSave" \in subs[i]

\* C13: a save event of the bound instance sends the host one signal, the
\* invocation of its file-save command, and does nothing else: no export
\* or write starts, no file changes, and the dirty flag and the cached XML
\* stay as they are.
C13_SaveEventOnlyRequests ==
    [][\A i \in Instances : SaveEventHandled(i) =>
            /\ last'.host = <<"workbench.action.files.save">>
            /\ Started = {}
            /\ UNCHANGED <<isDirty, currentXml, content, fs, tasks>>]_vars

\* C13's case: a save event on a dirty Document has just been handled;
\* the Document is still dirty and nothing is in flight.
C13_Witness ==
    /\ last = Last("onSave", "instance", "ok", "",
                   <<"workbench.action.files.save">>)
    /\ isDirty /\ currentXml \in Payloads /\ tasks = {}

\* C14: a change event of the bound instance notifies the host once, and
\* at that notification the Document already reports dirty and holds the
\* event's XML.
C14_NotifiedAfterUpdate ==
    [][\A i \in Instances, x \in Payloads : ChangeHandled(i, x) =>
            /\ last'.host = <<"onDidChangeCustomDocument">>
            /\ last'.seen = <<[isDirty |-> TRUE, xml |-> x]>>]_vars

\* C14's case: the host has just been notified of an edit made after an
\* earlier edit was saved, that is, of an edit to a clean Document.
C14_Witness ==
    /\ last.host = <<"onDidChangeCustomDocument">>
    /\ last.seen = <<[isDirty |-> TRUE, xml |-> currentXml]>>
    /\ currentXml = Repeat(233, 1) /\ content = currentXml
    /\ fs[uri] = ExportBytes(<<>>, OwnExt) /\ tasks = {}

\* C15: whatever resolveCustomEditor calls follow the opening of the
\* Document, more than one on the same Document included, none of them
\* ends in the "Instance already set!" error.
C15_NeverAlreadySet == last.err # ErrAlreadySet

\* C16: while no instance is bound, no step of save, saveAs, backup or
\* loadFromDisk ends in a call on the missing instance, and none changes
\* the dirty flag.
C16_UnboundNeverCallsInstance ==
    [][drawio = 0 =>
         last'.err # ErrNoInstance /\ UNCHANGED isDirty]_vars

\* C17 as stated: when a change event has been handled after a save()
\* started and before its write settled, the Document is dirty when that
\* save completes.
C17_RacingEditStaysDirty ==
    [][\A t \in tasks :
         (t.kind = "save" /\ t.mark \in {"change", "cleared"}
          /\ Ends(t) /\ last'.res = "ok") => isDirty']_vars

\* C17 as amended: ... and no save() or loadFromDisk() was called after
\* that change event, the Document is dirty when that save ends, completed
\* or failed.
C17_RacingEditStaysDirtyUnlessCleared ==
    [][\A t \in tasks :
         (t.kind = "save" /\ t.mark = "change" /\ Ends(t)) => isDirty']_vars

\* C17's case: a save has just completed whose file holds the export made
\* before an edit that came during the save, and the Document is dirty.
C17_Witness ==
    /\ last = Last("save", "host", "ok", "", <<>>)
    /\ isDirty /\ tasks = {} /\ backupId = Undefined
    /\ currentXml \in Payloads /\ content = currentXml
    /\ fs[uri] # ExportBytes(content, OwnExt)

\* C18: when a revert has just completed and left the Document clean, after
\* some change event was cached, the next init event invokes loadFromDisk
\* and pushes no cached XML into the instance.
C18_InitAfterRevertLoadsDisk ==
    [][\A i \in Instances :
         (/\ InitHandled(i)
          /\ currentXml # Undefined /\ ~isDirty
          /\ last = Last("load", "host", "ok", "", <<>>))
         => /\ InvokesLoadFromDisk
            /\ \A t \in Started : t.kind # "push"]_vars

====
